---- MODULE Spec2Model ----
(***************************************************************************)
(* Model of sync_git.py: wiki page revisions replayed as git commits.      *)
(*                                                                         *)
(* The remote wiki (hist, settings) and the invocation (args, CONFIG) are  *)
(* fixed per behaviour; the git repository (store) persists across runs.   *)
(* One run of main() is a walk of pc from "idle" back to "idle"; the       *)
(* process can be killed between any two steps.                            *)
(***************************************************************************)
EXTENDS Integers, Sequences, FiniteSets, TLC

VARIABLES
    hist,          \* the wiki's revisions, oldest first (all pages interleaved)
    settings,      \* page.mod.settings() of every page
    args,          \* main()'s page_list, ignore_list, include_mod, include_unlisted
    CONFIG,        \* CONFIG["email"]
    store,         \* the git repository: commits, work tree, index
    pc,            \* position of the process
    include_full,  \* main()'s include_full of the current run
    pending,       \* pages the loop of main() has still to visit
    page,          \* page being handled
    route,         \* how the page's revisions were chosen: "full", "window", "fallback"
    revisions,     \* revisions still to save for the page (ids, oldest first)
    handled,       \* pages for which the cursor was recovered in this run (logger.info)
    failedAt,      \* number of commits when a git step first exited non-zero in this run, or -1
    runStart,      \* the store when the run started
    pageStart,     \* the store when the handling of the page started
    prev,          \* outcome and mode of the previous run
    kills          \* how many times the process has been killed

vars == <<hist, settings, args, CONFIG, store, pc, include_full, pending, page,
          route, revisions, handled, failedAt, runStart, pageStart, prev, kills>>

(***************************************************************************)
(* Bounds                                                                  *)
(***************************************************************************)
MaxRevs == 3        \* revisions in the whole wiki
RecentWindow == 2   \* length of the wiki-wide feed subreddit.wiki.revisions()
MaxKills == 1       \* times the process is killed

(***************************************************************************)
(* Values                                                                  *)
(***************************************************************************)
PERMLEVEL_MOD_ONLY == 2

Pages == {"p1", "p2"}
WikiPages == <<"p1", "p2">>        \* iteration order of subreddit.wiki
Contents == {"A", "B"}
NoFile == "absent"                 \* the path does not exist
NoAuthor == "NoAuthor"             \* revision_by is None
NoEmail == "NoEmail"               \* SUBREDDIT_COMMIT_EMAIL unset
display_name == "sub"

\* Whitespace-delimited tokens.  A token is a word, or a UUID of number n
\* spelled canonically (lower case, hyphens) or otherwise (upper case).
Word(w) == [form |-> "word", n |-> w]
Canon(n) == [form |-> "canon", n |-> n]
Upper(n) == [form |-> "upper", n |-> n]

NoReason == <<>>                                  \* reason None or ""
SomeReason == <<Word(0), Canon(1)>>               \* "revert <id of revision 1>"

None == [kind |-> "None", n |-> 0]
Str(n) == [kind |-> "str", n |-> n]
Raise == [kind |-> "raise", n |-> 0]

Last(s) == s[Len(s)]
Reverse(s) == [i \in 1..Len(s) |-> s[Len(s) + 1 - i]]
Min(a, b) == IF a < b THEN a ELSE b

(***************************************************************************)
(* The revision source                                                     *)
(***************************************************************************)
\* All wikis of exactly n revisions; revision i has id i and date i.
WikisOfLen(n, contents, reasons, authors) ==
    { [i \in 1..n |-> [id |-> i, page |-> f[i][1], content |-> f[i][2],
                       reason |-> f[i][3], author |-> f[i][4], date |-> i]] :
        f \in [1..n -> Pages \X contents \X reasons \X authors] }

Wikis(contents, reasons, authors) ==
    UNION { WikisOfLen(n, contents, reasons, authors) : n \in 0..MaxRevs }

\* The wikis in which revision i has content A when i is odd and B when even.
Alternating(wikis) ==
    { w \in wikis : \A i \in 1..Len(w) : w[i].content = IF i % 2 = 1 THEN "A" ELSE "B" }

\* page.revisions(limit=None): the page's revisions, newest first.
PageRevisions(p) == Reverse(SelectSeq(hist, LAMBDA r : r.page = p))

\* subreddit.wiki.revisions(): the newest RecentWindow revisions, newest first.
WikiRevisions == SubSeq(Reverse(hist), 1, Min(RecentWindow, Len(hist)))

Ids(revs) == [i \in 1..Len(revs) |-> revs[i].id]

(***************************************************************************)
(* The version store                                                       *)
(***************************************************************************)
EmptyTree == [p \in Pages |-> NoFile]
EmptyStore == [commits |-> <<>>, work |-> EmptyTree, index |-> EmptyTree]

\* Tree of HEAD.
HeadTree(s) == IF s.commits = <<>> THEN EmptyTree ELSE Last(s.commits).tree

\* Commits touching the path of page p, oldest first.
Log(s, p) == SelectSeq(s.commits, LAMBDA c : p \in c.files)

\* Tokens of `git log -n 1 --pretty=medium -- <path>`: empty when no commit
\* touches the path, else the header and the message of the latest one.
GitLogOutput(s, p) ==
    IF Log(s, p) = <<>> THEN <<>>
    ELSE <<Word(1)>> \o Last(Log(s, p)).msg

\* uuid.UUID(token): the number, or -1 for ValueError.
UUID(token) == IF token.form \in {"canon", "upper"} THEN token.n ELSE -1

\* get_last_saved_revision reading the first token of the output, not the last.
get_last_saved_revision_first(s, p) ==
    IF s.work[p] = NoFile THEN None
    ELSE LET output_list == GitLogOutput(s, p) IN
         IF output_list = <<>> THEN Raise
         ELSE IF UUID(Head(output_list)) = -1 THEN None
         ELSE Str(UUID(Head(output_list)))

get_last_saved_revision(s, p) ==
    IF s.work[p] = NoFile THEN None
    ELSE LET output_list == GitLogOutput(s, p) IN
         IF output_list = <<>> THEN Raise                  \* output_list[-1]: IndexError
         ELSE IF UUID(Last(output_list)) = -1 THEN None    \* ValueError
         ELSE Str(UUID(Last(output_list)))

\* The walk that stops one revision late: the cursor's revision is kept.
RECURSIVE Walk_inclusive(_, _, _)
Walk_inclusive(revs, last_revision, revision_list) ==
    IF revs = <<>> THEN revision_list
    ELSE IF Head(revs).id = last_revision.n THEN <<Head(revs)>> \o revision_list
    ELSE Walk_inclusive(Tail(revs), last_revision, <<Head(revs)>> \o revision_list)

RECURSIVE Walk(_, _, _)
Walk(revs, last_revision, revision_list) ==
    IF revs = <<>> THEN revision_list
    ELSE IF Head(revs).id = last_revision.n THEN revision_list
    ELSE Walk(Tail(revs), last_revision, <<Head(revs)>> \o revision_list)

\* A diff that takes a cursor it never meets in the history as "nothing newer".
get_recent_revisions_known(p, last_revision) ==
    IF last_revision = None THEN Reverse(PageRevisions(p))
    ELSE IF \A i \in 1..Len(PageRevisions(p)) : PageRevisions(p)[i].id # last_revision.n
    THEN <<>>
    ELSE Walk(PageRevisions(p), last_revision, <<>>)

\* Revisions of page p newer than last_revision, oldest first.
get_recent_revisions(p, last_revision) ==
    IF last_revision = None THEN Reverse(PageRevisions(p))
    ELSE Walk(PageRevisions(p), last_revision, <<>>)

\* save_revision, first step: the file is overwritten with the revision's content.
WriteFile(s, rev) == [s EXCEPT !.work[rev.page] = rev.content]

\* add_commit, `git add <path>`.
git_add(s, p) == [s EXCEPT !.index[p] = s.work[p]]

commit_message(rev) ==
    IF rev.reason # NoReason THEN rev.reason \o <<Canon(rev.id)>> ELSE <<Canon(rev.id)>>

commit_email(commit_author) ==
    IF CONFIG.email # NoEmail THEN <<CONFIG.email>>
    ELSE <<IF commit_author = NoAuthor THEN "None" ELSE commit_author, "@", display_name, ".reddit">>

Changed(s) == {q \in Pages : s.index[q] # HeadTree(s)[q]}

\* A commit step that amends: the new commit takes the place of the last one.
git_commit_amend(s, rev) ==
    IF Changed(s) = {} THEN s
    ELSE [s EXCEPT !.commits =
            Append(IF @ = <<>> THEN @ ELSE SubSeq(@, 1, Len(@) - 1),
                   [msg |-> commit_message(rev),
                    files |-> Changed(s),
                    tree |-> s.index,
                    name |-> IF rev.author # NoAuthor THEN rev.author ELSE "[deleted]",
                    email |-> commit_email(rev.author),
                    date |-> rev.date])]

\* add_commit, `git commit -m <message>`: commits everything staged; exits
\* non-zero and creates nothing when the index equals HEAD.
git_commit(s, rev) ==
    IF Changed(s) = {} THEN s
    ELSE [s EXCEPT !.commits = Append(@,
            [msg |-> commit_message(rev),
             files |-> Changed(s),
             tree |-> s.index,
             name |-> IF rev.author # NoAuthor THEN rev.author ELSE "[deleted]",
             email |-> commit_email(rev.author),
             date |-> rev.date])]

(***************************************************************************)
(* Page selection                                                          *)
(***************************************************************************)
InList(x, list) == \E i \in 1..Len(list) : list[i] = x

\* The early returns of _handle_full_page.
FullPageSkips(p, ignore_list, include_mod, include_unlisted) ==
    \/ ignore_list # <<>> /\ InList(p, ignore_list)
    \/ (~include_mod) /\ settings[p].permlevel = PERMLEVEL_MOD_ONLY
    \/ (~include_unlisted) /\ ~settings[p].listed

\* The filters of main's loop without the mod-only test.
RecentSkips_nomod(p) ==
    \/ args.page_list # <<>> /\ ~InList(p, args.page_list)
    \/ args.ignore_list # <<>> /\ InList(p, args.ignore_list)
    \/ (~args.include_unlisted) /\ ~settings[p].listed

\* The `continue`s of main's loop over revisions_by_page.
RecentSkips(p) ==
    \/ args.page_list # <<>> /\ ~InList(p, args.page_list)
    \/ args.ignore_list # <<>> /\ InList(p, args.ignore_list)
    \/ (~args.include_mod) /\ settings[p].permlevel = PERMLEVEL_MOD_ONLY
    \/ (~args.include_unlisted) /\ ~settings[p].listed

\* revisions_by_page[p]: the feed's revisions of page p, oldest first.
WindowOf(p) == SelectSeq(Reverse(WikiRevisions), LAMBDA r : r.page = p)

RECURSIVE FirstSeen(_, _)
FirstSeen(revs, seen) ==
    IF revs = <<>> THEN seen
    ELSE IF InList(Head(revs).page, seen) THEN FirstSeen(Tail(revs), seen)
    ELSE FirstSeen(Tail(revs), Append(seen, Head(revs).page))

\* Keys of revisions_by_page in insertion order.
RecentPages == FirstSeen(Reverse(WikiRevisions), <<>>)

\* The for/else of _handle_revisions_for_page: the revisions after the one
\* equal to last_revision, or <<-1>> when the loop does not break.
RECURSIVE AfterCursor(_, _)
AfterCursor(revs, last_revision) ==
    IF revs = <<>> THEN <<-1>>
    ELSE IF last_revision.kind = "str" /\ Head(revs).id = last_revision.n THEN Ids(Tail(revs))
    ELSE AfterCursor(Tail(revs), last_revision)

\* A fallback that saves the window's revisions of the page only.
FallbackRevisions_window(p, last_revision) == Ids(WindowOf(p))

\* The else branch of that for loop: _handle_full_page(page) saves the
\* page's whole history after the cursor.
FallbackRevisions(p, last_revision) == Ids(get_recent_revisions(p, last_revision))

(***************************************************************************)
(* Whole-handler results, for comparing a run with what another would do   *)
(***************************************************************************)
\* save_revision as a whole.
save_revision(s, rev) == git_commit(git_add(WriteFile(s, rev), rev.page), rev)

RECURSIVE Replay(_, _)
Replay(s, revs) == IF revs = <<>> THEN s ELSE Replay(save_revision(s, Head(revs)), Tail(revs))

\* _handle_full_page(page) with its default arguments, run without interruption.
FullPageResult(s, p) ==
    LET last_revision == get_last_saved_revision(s, p) IN
    IF last_revision = Raise THEN s ELSE Replay(s, get_recent_revisions(p, last_revision))

(***************************************************************************)
(* Properties                                                              *)
(***************************************************************************)
\* Revision ids read as the final token of the messages of the commits
\* touching page p's file, in log order (-1 where the token is no identifier).
LastTokenIds(s, p) == [i \in 1..Len(Log(s, p)) |-> UUID(Last(Log(s, p)[i].msg))]

\* Ids of page p's revisions, oldest first.
PageIds(p) == Ids(Reverse(PageRevisions(p)))

Range(f) == {f[i] : i \in DOMAIN f}
NoRepeats(f) == \A i, j \in DOMAIN f : i # j => f[i] # f[j]
Handled(p) == InList(p, handled)

\* C1 (as claimed): after a full-mode run that started with no file for a page
\* and ran to completion, the revision ids ending the messages of the commits
\* touching the page's file are exactly the ids of the page's revisions, each once.
C1_NoGapsNoDuplicates ==
    (pc = "done" /\ include_full) =>
        \A p \in Pages :
            (Handled(p) /\ runStart.work[p] = NoFile) =>
                /\ NoRepeats(LastTokenIds(store, p))
                /\ Range(LastTokenIds(store, p)) = Range(PageIds(p))

\* The run before was killed right after committing revisions 1..k of page p,
\* 1 <= k < n: the log of p holds exactly those, and the tree is clean.
InterruptedAfter(p, k) ==
    /\ prev.outcome = "killed"
    /\ k >= 1 /\ k < Len(PageIds(p))
    /\ LastTokenIds(runStart, p) = SubSeq(PageIds(p), 1, k)
    /\ \A i \in 1..k : Log(runStart, p)[i].files = {p}
    /\ runStart.index = HeadTree(runStart)
    /\ runStart.work = runStart.index

\* C2 (as claimed): a run that follows one interrupted right after committing
\* revisions 1..k of an n-revision page commits exactly k+1..n for it, in order.
C2_Resumability ==
    pc = "done" =>
        \A p \in Pages : \A k \in 1..MaxRevs :
            (Handled(p) /\ InterruptedAfter(p, k)) => LastTokenIds(store, p) = PageIds(p)

\* C3 (as claimed): the run that follows a killed one does not fail, and once
\* it completes no revision of a processed page is committed twice or skipped.
C3_KillSafe ==
    prev.outcome = "killed" =>
        /\ pc # "raised"
        /\ pc = "done" =>
            \A p \in Pages : Handled(p) =>
                /\ NoRepeats(LastTokenIds(store, p))
                /\ Range(PageIds(p)) \subseteq Range(LastTokenIds(store, p))

\* C4: a run that completes right after a completed run of the same mode, with
\* the same invocation and remote state, adds no commit.
C4_Idempotence ==
    (pc = "done" /\ prev.outcome = "completed" /\ prev.full = include_full) =>
        store.commits = runStart.commits

\* C4 witness: such a second run has handled a page that has commits, and it
\* tried again a revision whose content is already committed.
C4_Witness ==
    /\ pc = "done" /\ prev.outcome = "completed" /\ prev.full = include_full
    /\ \E p \in Pages : Handled(p) /\ Log(store, p) # <<>>
    /\ failedAt # -1

\* C5 (as claimed): the commits touching one page's file appear in revision
\* creation order: commit dates never decrease along the file's log, and every
\* commit's revision is strictly newer than those committed before it.
C5_ChronologicalOrder ==
    \A p \in Pages : \A i, j \in 1..Len(Log(store, p)) :
        i < j => /\ Log(store, p)[i].date <= Log(store, p)[j].date
                 /\ LastTokenIds(store, p)[i] < LastTokenIds(store, p)[j]

\* Ids of page p's revisions created after the revision the cursor names; all
\* of them when the cursor names no revision of the page.
NewerThan(p, cursor) ==
    IF cursor.kind = "str" /\ cursor.n \in Range(PageIds(p))
    THEN SelectSeq(PageIds(p), LAMBDA id : hist[id].date > hist[cursor.n].date)
    ELSE PageIds(p)

\* The store a finished fallback leaves is the one a full-mode handling of the
\* page from the same store leaves: same commits, same order, same file.
FallbackAsFull ==
    (pc = "loop" /\ route = "fallback") => store = FullPageResult(pageStart, page)

\* The step that takes the fallback plans every revision newer than the cursor.
FallbackPlansAll ==
    (pc = "loop" /\ pending # <<>> /\ handled' = Append(handled, Head(pending))
        /\ route' = "fallback")
        => revisions' = NewerThan(Head(pending), get_last_saved_revision(store, Head(pending)))

C7_FailedCommitAborts ==
    failedAt # -1 => Len(store.commits) = failedAt

\* C8 (as claimed): cursor recovery never raises, and it returns none when the
\* file is missing, when no commit touches the file, and when the last token of
\* the last commit message is no identifier.
C8_CursorRecoveryTotal ==
    \A p \in Pages :
        /\ get_last_saved_revision(store, p) # Raise
        /\ store.work[p] = NoFile => get_last_saved_revision(store, p) = None
        /\ Log(store, p) = <<>> => get_last_saved_revision(store, p) = None
        /\ (Log(store, p) # <<>> /\ UUID(Last(Last(Log(store, p)).msg)) = -1)
              => get_last_saved_revision(store, p) = None

\* The commits of the log made by save_revision (those after the foreign ones).
IsForeign(c) == c.name = "bob"
Saved(s) == SelectSeq(s.commits, LAMBDA c : ~IsForeign(c))

\* C9 (as claimed): every commit created by save_revision ends its message with
\* the id of the revision it stores (the one whose date and content it carries),
\* and right after save_revision(r) has created a commit, cursor recovery on the
\* path of r's page returns r's id.
C9_CursorRoundTrip ==
    /\ \A i \in 1..Len(Saved(store)) :
          LET c == Saved(store)[i]
              id == UUID(Last(c.msg))
          IN /\ Last(c.msg) = Canon(id)
             /\ id \in 1..Len(hist)
             /\ c.date = hist[id].date
             /\ c.tree[hist[id].page] = hist[id].content
    /\ (store.commits # <<>> /\ ~IsForeign(Last(store.commits))) =>
          LET id == UUID(Last(Last(store.commits).msg))
          IN get_last_saved_revision(store, hist[id].page) = Str(id)

\* The four predicates of page selection, as the specification states them.
Passes(p) ==
    /\ ~InList(p, args.ignore_list)
    /\ args.page_list = <<>> \/ InList(p, args.page_list)
    /\ settings[p].permlevel # PERMLEVEL_MOD_ONLY \/ args.include_mod
    /\ settings[p].listed \/ args.include_unlisted

\* The pages a run considers.
Candidate(p) ==
    IF include_full /\ args.page_list = <<>> THEN InList(p, WikiPages)
    ELSE IF include_full THEN InList(p, args.page_list)
    ELSE InList(p, RecentPages)

\* C10: a page is processed only if it is a candidate passing the four
\* predicates, every such page has been processed when the run completes, and a
\* page failing a predicate has no commit.
C10_PageFiltering ==
    /\ \A p \in Pages : Handled(p) => (Candidate(p) /\ Passes(p))
    /\ pc = "done" => \A p \in Pages : (Candidate(p) /\ Passes(p)) => Handled(p)
    /\ \A p \in Pages : ~Passes(p) => Log(store, p) = <<>>

\* C10 witness: a completed run in which a mod-only page was included and got
\* commits while another candidate page was filtered out.
C10_Witness ==
    /\ pc = "done"
    /\ \E p \in Pages : /\ settings[p].permlevel = PERMLEVEL_MOD_ONLY
                        /\ Handled(p) /\ Log(store, p) # <<>>
    /\ \E q \in Pages : Candidate(q) /\ ~Passes(q)

\* The cursors a page's history can be walked with.
Cursors == {None} \cup {Str(i) : i \in 1..MaxRevs}

\* C11: for every page history and cursor, get_recent_revisions returns, oldest
\* first, exactly the revisions strictly newer than the cursor's revision when
\* the cursor occurs in the history, the whole history reversed when the cursor
\* is none, and nothing when the history is empty; for r3, r2, r1 and cursor r2
\* it returns exactly r3.
C11_IncrementalDiff ==
    \A p \in Pages : \A c \in Cursors :
        LET H == PageRevisions(p)
            out == get_recent_revisions(p, c)
        IN /\ c = None => out = Reverse(H)
           /\ (c.kind = "str" /\ c.n \in Range(Ids(H))) =>
                 out = SelectSeq(Reverse(H), LAMBDA r : r.date > hist[c.n].date)
           /\ H = <<>> => out = <<>>
           /\ (Ids(H) = <<3, 2, 1>> /\ c = Str(2)) => Ids(out) = <<3>>

\* C11 witness: full-mode handling of a page with history r3, r2, r1 and cursor
\* r2 has planned exactly r3.
C11_Witness ==
    /\ pc = "write" /\ route = "full"
    /\ Ids(PageRevisions(page)) = <<3, 2, 1>>
    /\ get_last_saved_revision(pageStart, page) = Str(2)
    /\ revisions = <<3>>

\* Content of the newest revision of page p.
NewestContent(p) == Head(PageRevisions(p)).content

\* The tree is as a commit left it: nothing written or staged since.
CleanTree(s) == s.work = s.index /\ s.index = HeadTree(s)

\* After a completed run, the file of every processed page holds the content of
\* the page's newest revision.
SnapshotIsNewest ==
    pc = "done" =>
        \A p \in Pages :
            (Handled(p) /\ PageRevisions(p) # <<>>) => store.work[p] = NewestContent(p)

\* When no save is in progress or was interrupted, the file of a page holds the
\* content of the revision whose id cursor recovery returns for its path.
SnapshotIsCursor ==
    (pc \in {"idle", "loop", "done"} /\ CleanTree(store)) =>
        \A p \in Pages :
            LET c == get_last_saved_revision(store, p) IN
            c.kind = "str" =>
                /\ c.n \in Range(PageIds(p))
                /\ store.work[p] = hist[c.n].content

RevisionOf(c) == hist[UUID(Last(c.msg))]

\* The identity a commit's name shows: the author, or the sentinel.
Identity(rev) == IF rev.author # NoAuthor THEN rev.author ELSE "[deleted]"

NameAndDate ==
    \A i \in 1..Len(store.commits) :
        LET c == store.commits[i] IN
        /\ c.name = Identity(RevisionOf(c))
        /\ c.date = RevisionOf(c).date

DerivedEmail ==
    \A i \in 1..Len(store.commits) :
        LET c == store.commits[i] IN
        IF CONFIG.email = NoEmail
        THEN c.email = <<Identity(RevisionOf(c)), "@", display_name, ".reddit">>
        ELSE c.email = <<CONFIG.email>>

\* C13 (as claimed): every commit created for a revision carries the revision's
\* author as its name, or "[deleted]" when the revision has no author, the
\* revision's own timestamp as its date, and, when no email override is
\* configured, the email <that same identity>@<wiki>.reddit.
C13_CommitMetadata == NameAndDate /\ DerivedEmail

\* Id of the newest revision of page p.
NewestId(p) == Head(PageRevisions(p)).id

\* A completed recent-mode run leaves a page outside the recent window with
\* the commits and the file it had when the run started.
OutsideWindowUntouched ==
    (pc = "done" /\ ~include_full) =>
        \A p \in Pages :
            ~InList(p, RecentPages) =>
                /\ Log(store, p) = Log(runStart, p)
                /\ store.work[p] = runStart.work[p]

\* A completed full-mode run without a page list has processed every page of
\* the wiki that passes the filters.
FullModeProcessesAll ==
    (pc = "done" /\ include_full /\ args.page_list = <<>>) =>
        \A p \in Pages : (Passes(p) /\ PageRevisions(p) # <<>>) => Handled(p)

\* ... and leaves the cursor of each of them at the page's newest revision.
FullModeCursorAtNewest ==
    (pc = "done" /\ include_full /\ args.page_list = <<>>) =>
        \A p \in Pages :
            (Passes(p) /\ PageRevisions(p) # <<>>) =>
                get_last_saved_revision(store, p) = Str(NewestId(p))

\* C14 (as claimed): in recent mode a page with no revision in the recent
\* window receives no commit and keeps its file; in full mode with no page
\* list every page passing the filters is processed and ends the run with its
\* cursor at its newest revision.
C14_CoverageByMode ==
    OutsideWindowUntouched /\ FullModeProcessesAll /\ FullModeCursorAtNewest

\* A well-formed cursor that names no revision of page p.
Stale(p, c) == c.kind = "str" /\ c.n \notin Range(PageIds(p))

StaleDiffIsWholeHistory ==
    \A p \in Pages : \A c \in Cursors \cup {Str(MaxRevs + 1)} :
        Stale(p, c) => get_recent_revisions(p, c) = Reverse(PageRevisions(p))

\* The step of _handle_full_page that recovers a stale cursor plans the page's
\* whole history, oldest first.
StalePlansAll ==
    (pc = "loop" /\ include_full /\ pending # <<>>
        /\ handled' = Append(handled, Head(pending))
        /\ Stale(Head(pending), get_last_saved_revision(store, Head(pending))))
        => revisions' = PageIds(Head(pending))

\* When _handle_full_page started from a stale cursor has returned, every
\* revision of the page has been passed to save_revision, oldest first.
StaleReplaysAll ==
    (pc = "loop" /\ route = "full" /\ Stale(page, get_last_saved_revision(pageStart, page)))
        => store = Replay(pageStart, Reverse(PageRevisions(page)))

\* C15: when the recovered cursor is a well-formed id that names no revision of
\* the page, get_recent_revisions returns the page's whole history oldest first
\* and _handle_full_page replays every revision of it.
C15_StaleCursorReplaysAll ==
    /\ [](StaleDiffIsWholeHistory /\ StaleReplaysAll)
    /\ [][StalePlansAll]_vars

\* A full-mode run finished a page of two revisions whose file somebody else
\* had committed with an unknown id, and added a commit for each revision.
C15_Witness ==
    /\ pc = "loop" /\ route = "full" /\ page = "p1"
    /\ get_last_saved_revision(pageStart, "p1") = Str(MaxRevs + 1)
    /\ Len(PageIds("p1")) >= 2
    /\ LastTokenIds(store, "p1") = <<MaxRevs + 1>> \o PageIds("p1")

\* The cursor recovered for page p in store s is one of p's revisions in the
\* recent window.
CursorInWindow(s, p) ==
    LET c == get_last_saved_revision(s, p) IN
    c.kind = "str" /\ c.n \in Range(Ids(WindowOf(p)))

\* Ids ending the messages of the commits added to s0 to give s.
AddedIds(s0, s) ==
    [i \in 1..(Len(s.commits) - Len(s0.commits)) |->
        UUID(Last(s.commits[Len(s0.commits) + i].msg))]

\* The step that finds the cursor in the window plans the revisions of the
\* page newer than the cursor, oldest first, all of them in the window, and
\* does not take the fallback.
WindowPlansNewer ==
    (pc = "loop" /\ ~include_full /\ pending # <<>>
        /\ handled' = Append(handled, Head(pending))
        /\ CursorInWindow(store, Head(pending)))
        => /\ route' = "window"
           /\ revisions' = NewerThan(Head(pending), get_last_saved_revision(store, Head(pending)))
           /\ Range(revisions') \subseteq Range(Ids(WindowOf(Head(pending))))

\* What the handling leaves is what full-mode handling of the page leaves.
WindowAsFull ==
    (pc = "loop" /\ route = "window" /\ CursorInWindow(pageStart, page))
        => store = FullPageResult(pageStart, page)

\* The commits added are exactly those of the window's revisions newer than
\* the cursor, oldest first: none when the cursor is the newest.
WindowCommitsNewer ==
    (pc = "loop" /\ route = "window" /\ CursorInWindow(pageStart, page))
        => AddedIds(pageStart, store) = NewerThan(page, get_last_saved_revision(pageStart, page))

\* C16 (as claimed): when the recovered cursor is one of the page's revisions
\* in the recent window, recent mode commits exactly the window's revisions of
\* the page newer than the cursor, oldest first, without falling back, nothing
\* when the cursor is the newest, and the result is that of a full-mode run on
\* the page.
C16_CursorInWindow ==
    /\ [](WindowAsFull /\ WindowCommitsNewer)
    /\ [][WindowPlansNewer]_vars

IsPrefix(a, b) == Len(a) <= Len(b) /\ SubSeq(b, 1, Len(a)) = a

\* Every step leaves the commit log it found as a prefix of the log it leaves.
LogOnlyGrows == IsPrefix(store.commits, store'.commits)

\* The logs a run and a page handling started from are prefixes of the log.
StartLogsKept ==
    pc # "idle" =>
        /\ IsPrefix(runStart.commits, store.commits)
        /\ page # "none" => /\ IsPrefix(runStart.commits, pageStart.commits)
                            /\ IsPrefix(pageStart.commits, store.commits)

\* C17: every step of every run leaves the existing commit log as a prefix of
\* the new log: commits already present are never rewritten, reordered or
\* removed, in both modes and on the fallback path.
C17_AppendOnly == []StartLogsKept /\ [][LogOnlyGrows]_vars

\* A run that found the commits of r1 and r2 of a page of three revisions
\* completed having added one commit, for r3.
C17_Witness ==
    /\ pc = "done"
    /\ PageIds("p1") = <<1, 2, 3>>
    /\ LastTokenIds(runStart, "p1") = <<1, 2>>
    /\ Len(store.commits) = 3
    /\ IsPrefix(runStart.commits, store.commits)
    /\ LastTokenIds(store, "p1") = <<1, 2, 3>>

\* Every commit touches exactly the file of the page that owns the revision
\* whose id ends its message.
OneFilePerCommit ==
    \A i \in 1..Len(store.commits) :
        LET c == store.commits[i] IN c.files = {RevisionOf(c).page}

\* A step taken while page A is being processed adds no commit touching the
\* file of another page B and leaves the cursor recovered for B as it was.
OtherPagesKept ==
    page' \in Pages =>
        \A q \in Pages \ {page'} :
            /\ Log(store', q) = Log(store, q)
            /\ get_last_saved_revision(store', q) = get_last_saved_revision(store, q)

\* C18 (as claimed): every commit the engine creates touches exactly one file,
\* the file of the page owning the revision whose id ends the message, and
\* processing a page never adds a commit touching another page's file nor
\* changes the cursor recovered for another page.
C18_PageIsolation == []OneFilePerCommit /\ [][OtherPagesKept]_vars

\* A run ends by returning from main or by being killed, never by an
\* exception escaping main.
RunReturns == pc # "raised"

\* Each page is handled at most once in a run.
HandledOnce == NoRepeats(handled)

\* While a page is handled through the fallback, handling does not go back
\* to the window's revisions.
FallbackStays ==
    (route = "fallback" /\ pc \in {"write", "add", "commit"} /\ pc' # "idle")
        => /\ route' = "fallback"
           /\ page' = page
           /\ handled' = handled

\* The commits a run has added for page p: those whose message ends with the
\* id of one of p's revisions.
AddedFor(p) == SelectSeq(AddedIds(runStart, store), LAMBDA id : id \in Range(PageIds(p)))

CommitsBounded ==
    pc # "idle" => \A p \in Pages : Len(AddedFor(p)) <= Len(PageIds(p))

\* C19 (as claimed): every run that is not killed reaches completion; each
\* page is handled once per run, the fallback is taken at most once per page
\* and never goes back to recent handling, and a run adds for a page at most
\* as many commits as the page has revisions.
C19_Termination ==
    /\ [](RunReturns /\ HandledOnce /\ CommitsBounded)
    /\ [][FallbackStays]_vars

(***************************************************************************)
(* Initial states                                                          *)
(***************************************************************************)
DefaultArgs == [page_list |-> <<>>, ignore_list |-> <<>>,
                include_mod |-> FALSE, include_unlisted |-> FALSE]
NormalPage == [permlevel |-> 0, listed |-> TRUE]

Idle ==
    /\ pc = "idle"
    /\ include_full = FALSE
    /\ pending = <<>>
    /\ page = "none"
    /\ route = "none"
    /\ revisions = <<>>
    /\ handled = <<>>
    /\ failedAt = -1
    /\ runStart = EmptyStore
    /\ pageStart = EmptyStore

\* Invocations: allow-list, ignore-list and the two inclusion flags.
ArgChoices ==
    [page_list : {<<>>, <<"p1">>, <<"p2", "p1">>},
     ignore_list : {<<>>, <<"p1">>},
     include_mod : BOOLEAN,
     include_unlisted : BOOLEAN]

PageSettings == [permlevel : {0, PERMLEVEL_MOD_ONLY}, listed : BOOLEAN]

\* A repository in which somebody else committed page p's file with a message
\* ending in the token t.
ForeignStore(p, t) ==
    LET tree == [EmptyTree EXCEPT ![p] = "A"] IN
    [commits |-> <<[msg |-> <<Word(0), t>>, files |-> {p}, tree |-> tree,
                    name |-> "bob", email |-> <<"bob">>, date |-> 0]>>,
     work |-> tree, index |-> tree]

ForeignTokens == {Word(0), Upper(1), Canon(1), Canon(MaxRevs + 1)}

InitWith(wikis, argChoices, settingChoices, stores) ==
    /\ hist \in wikis
    /\ settings \in [Pages -> settingChoices]
    /\ args \in argChoices
    /\ CONFIG = [email |-> NoEmail]
    /\ store \in stores
    /\ prev = [outcome |-> "none", full |-> FALSE]
    /\ kills = 0
    /\ Idle

\* Replay: every wiki of at most MaxRevs revisions, default invocation, new repository.
Init == InitWith(Wikis(Contents, {NoReason}, {"alice"}), {DefaultArgs}, {NormalPage},
                 {EmptyStore})

\* Commit messages: revisions with and without a reason.
InitMessages == InitWith(Wikis(Contents, {NoReason, SomeReason}, {"alice"}), {DefaultArgs},
                         {NormalPage}, {EmptyStore})

\* Page selection: every invocation and every page setting.
InitFilter == InitWith(Alternating(Wikis(Contents, {NoReason}, {"alice"})), ArgChoices,
                       PageSettings, {EmptyStore})

\* Foreign history: page p1's file was committed by somebody else.
InitForeign == InitWith(Wikis(Contents, {NoReason}, {"alice"}), {DefaultArgs}, {NormalPage},
                        {ForeignStore("p1", t) : t \in ForeignTokens})

Emails == {NoEmail, "sync@example.org"}

\* Commit identity: revisions with and without an author, with and without
\* SUBREDDIT_COMMIT_EMAIL.
InitMeta ==
    /\ hist \in Alternating(Wikis(Contents, {NoReason}, {"alice", NoAuthor}))
    /\ settings \in [Pages -> {NormalPage}]
    /\ args = DefaultArgs
    /\ CONFIG \in [email : Emails]
    /\ store = EmptyStore
    /\ prev = [outcome |-> "none", full |-> FALSE]
    /\ kills = 0
    /\ Idle

(***************************************************************************)
(* Actions                                                                 *)
(***************************************************************************)
remote == <<hist, settings, args, CONFIG>>

\* main(): dispatch on include_full and page_list (lines 210-236).
Main ==
    /\ pc = "idle"
    /\ \E full \in BOOLEAN :
        /\ include_full' = full
        /\ pending' = IF full /\ args.page_list = <<>> THEN WikiPages
                      ELSE IF full THEN args.page_list
                      ELSE RecentPages
    /\ pc' = "loop"
    /\ runStart' = store
    /\ handled' = <<>>
    /\ failedAt' = -1
    /\ UNCHANGED <<remote, store, page, route, revisions, pageStart, prev, kills>>

\* What follows the filters: recover the cursor, pick the revisions.
Begin(p, how, last_revision, todo) ==
    /\ handled' = Append(handled, p)
    /\ page' = p
    /\ pageStart' = store
    /\ IF last_revision = Raise
       THEN /\ pc' = "raised"
            /\ route' = how
            /\ revisions' = <<>>
       ELSE /\ pc' = IF todo = <<>> THEN "loop" ELSE "write"
            /\ route' = how
            /\ revisions' = todo

\* One iteration of the full-mode loop: _handle_full_page up to its for loop.
HandleFullPage ==
    /\ pc = "loop"
    /\ include_full
    /\ pending # <<>>
    /\ pending' = Tail(pending)
    /\ LET p == Head(pending)
           last_revision == get_last_saved_revision(store, p)
       IN IF FullPageSkips(p, args.ignore_list, args.include_mod, args.include_unlisted)
          THEN /\ pc' = "loop"
               /\ UNCHANGED <<page, route, revisions, handled, pageStart>>
          ELSE Begin(p, "full", last_revision,
                     IF last_revision = Raise THEN <<>>
                     ELSE Ids(get_recent_revisions(p, last_revision)))
    /\ UNCHANGED <<remote, store, include_full, failedAt, runStart, prev, kills>>

\* One iteration of the recent-mode loop: the filters of main, then
\* _handle_revisions_for_page up to its for loop, _handle_full_page(page)
\* with its default arguments when the cursor is not in the window.
HandleRevisionsForPage ==
    /\ pc = "loop"
    /\ ~include_full
    /\ pending # <<>>
    /\ pending' = Tail(pending)
    /\ LET p == Head(pending)
           last_revision == get_last_saved_revision(store, p)
           revisions_to_save == AfterCursor(WindowOf(p), last_revision)
       IN IF RecentSkips(p)
          THEN /\ pc' = "loop"
               /\ UNCHANGED <<page, route, revisions, handled, pageStart>>
          ELSE IF last_revision = Raise
          THEN Begin(p, "window", Raise, <<>>)
          ELSE IF revisions_to_save # <<-1>>
          THEN Begin(p, "window", last_revision, revisions_to_save)
          ELSE IF FullPageSkips(p, <<>>, TRUE, TRUE)
          THEN /\ pc' = "loop"
               /\ UNCHANGED <<page, route, revisions, handled, pageStart>>
          ELSE Begin(p, "fallback", last_revision, FallbackRevisions(p, last_revision))
    /\ UNCHANGED <<remote, store, include_full, failedAt, runStart, prev, kills>>

\* save_revision, lines 104-118: the file is written.
SaveWrite ==
    /\ pc = "write"
    /\ store' = WriteFile(store, hist[Head(revisions)])
    /\ pc' = "add"
    /\ UNCHANGED <<remote, include_full, pending, page, route, revisions, handled,
                   failedAt, runStart, pageStart, prev, kills>>

\* add_commit, line 73.
GitAdd ==
    /\ pc = "add"
    /\ store' = git_add(store, hist[Head(revisions)].page)
    /\ pc' = "commit"
    /\ UNCHANGED <<remote, include_full, pending, page, route, revisions, handled,
                   failedAt, runStart, pageStart, prev, kills>>

\* add_commit, lines 75-87; the exit status of git is not looked at, and the
\* for loop of the handler moves to the next revision.
GitCommit ==
    /\ pc = "commit"
    /\ store' = git_commit(store, hist[Head(revisions)])
    /\ failedAt' = IF store' = store /\ failedAt = -1 THEN Len(store.commits) ELSE failedAt
    /\ revisions' = Tail(revisions)
    /\ pc' = IF Tail(revisions) = <<>> THEN "loop" ELSE "write"
    /\ UNCHANGED <<remote, include_full, pending, page, route, handled,
                   runStart, pageStart, prev, kills>>

\* The loop of main is exhausted: main returns.
Finish ==
    /\ pc = "loop"
    /\ pending = <<>>
    /\ pc' = "done"
    /\ UNCHANGED <<remote, store, include_full, pending, page, route, revisions,
                   handled, failedAt, runStart, pageStart, prev, kills>>

Reset ==
    /\ pc' = "idle"
    /\ include_full' = FALSE
    /\ pending' = <<>>
    /\ page' = "none"
    /\ route' = "none"
    /\ revisions' = <<>>
    /\ handled' = <<>>
    /\ failedAt' = -1
    /\ runStart' = EmptyStore
    /\ pageStart' = EmptyStore

\* The process ends, normally or by the uncaught exception.
Exit ==
    /\ pc \in {"done", "raised"}
    /\ prev' = [outcome |-> IF pc = "done" THEN "completed" ELSE "raised",
                full |-> include_full]
    /\ Reset
    /\ UNCHANGED <<remote, store, kills>>

\* The process is killed; the work tree, the index and the log stay as they are.
Kill ==
    /\ pc \in {"loop", "write", "add", "commit"}
    /\ kills < MaxKills
    /\ kills' = kills + 1
    /\ prev' = [outcome |-> "killed", full |-> include_full]
    /\ Reset
    /\ UNCHANGED <<remote, store>>

Next ==
    \/ Main
    \/ HandleFullPage
    \/ HandleRevisionsForPage
    \/ SaveWrite
    \/ GitAdd
    \/ GitCommit
    \/ Finish
    \/ Exit
    \/ Kill

Spec == Init /\ [][Next]_vars
SpecMessages == InitMessages /\ [][Next]_vars
SpecFilter == InitFilter /\ [][Next]_vars
SpecForeign == InitForeign /\ [][Next]_vars
SpecMeta == InitMeta /\ [][Next]_vars

====
